---- MODULE Spec2Model ----
(***************************************************************************)
(* AGENT-K task coordination core: the file-based task/result store        *)
(* (lib/ipc.sh, shipped inside python/agentk/scripts/lib/core.sh) and the  *)
(* agent process supervisor (lib/spawn.sh).                                *)
(*                                                                         *)
(* Every store function is a sequence of file operations.  A file          *)
(* operation (one jq read of a record into a temporary file, one mv of the *)
(* temporary file over the record, one cat > file) is one atomic step;     *)
(* the shells and the background subshells interleave at that grain.       *)
(***************************************************************************)
EXTENDS Integers, Sequences, FiniteSets, TLC

\* ------------------------------------------------------------------ bounds
MaxTasks == 2        \* task ids of the supervisor specification
MaxProcs == 2        \* background subshells started in one behaviour
MaxLive == 1         \* subshells alive at the same time in the supervisor specification
MaxClock == 1        \* seconds the clock may advance
MaxStoreTasks == 2   \* task ids of the pure store specification (SpecReady)

Ids == 1..MaxTasks
StoreIds == 1..MaxStoreTasks
Pids == 1..MaxProcs
Agents == {"engineer", "tester"}
Shells == {"supervisor", "worker"}

\* JSON null of a timestamp, of .result and of .error
Null == -1
\* the empty string used as a task id
EmptyId == 0

\* ------------------------------------------------------- status constants
STATUS_PENDING == "pending"
STATUS_IN_PROGRESS == "in_progress"
STATUS_COMPLETED == "completed"
STATUS_FAILED == "failed"
STATUS_CANCELLED == "cancelled"

Statuses == {STATUS_PENDING, STATUS_IN_PROGRESS, STATUS_COMPLETED,
             STATUS_FAILED, STATUS_CANCELLED}
Terminal == {STATUS_COMPLETED, STATUS_FAILED, STATUS_CANCELLED}

\* ------------------------------------------------------------------ state
VARIABLES
    tasks,       \* workspace/tasks/<id>.json : id -> task record, NoTask = no file
    results,     \* workspace/results/<id>.json : id -> result record, NoResult = no file
    session,     \* workspace/session.json
    pidFile,     \* workspace/.pids/<agent>.pid : agent -> pid, 0 = no file
    taskFile,    \* workspace/.pids/<agent>.task : agent -> task id, 0 = no file
    procs,       \* the background subshells spawn_agent has started, by pid
    sh,          \* what each shell is executing
    ret,         \* the return code of the last call of each shell
    now,         \* the clock (date -u), in seconds
    everBlocked, \* history: tasks seen pending behind a failed/cancelled/absent dependency
    ready,       \* the last answer of get_ready_tasks: [valid, ids]
    out,         \* what the last query or wait of each shell wrote to stdout and to the log
    outcomes,    \* history: the <<operation, condition, return code, stdout>> of finished waits
    council,     \* one runCouncil / runClaude call of the terminal UI: promise, process, timer
    app,         \* the state of the App component the call runs under
    rx,          \* the stdout stream of the council backend and its data handler
    run          \* the council runs of the terminal UI, by number: call, backend, stdout

\* what the queries and waits of the shells produce
queryVars == <<out, outcomes>>
\* the terminal UI
uiVars == <<council, app, rx, run>>
\* the workspace, the shells and their subshells
shellVars == <<tasks, results, session, pidFile, taskFile, procs, sh, ret, now,
               everBlocked, ready>>

vars == <<tasks, results, session, pidFile, taskFile, procs, sh, ret, now,
          everBlocked, ready, out, outcomes, council, app, rx, run>>

\* A record of workspace/tasks: the fields the store functions read or write
\* (type, assigned_to, prompt and context.files are written once by create_task
\* and read by no store or supervisor decision).
NoTask == [status |-> "absent", priority |-> 0, started_at |-> Null,
           completed_at |-> Null, deps |-> {}, result |-> Null, error |-> Null]

NoResult == [agent |-> "", status |-> "absent", output |-> "", completed_at |-> Null]

NoSession == [exists |-> FALSE, ended_at |-> Null, agents |-> [a \in Agents |-> "none"]]

\* [[ -f "$task_file" ]]
TaskExists(T, id) == id \in DOMAIN T /\ T[id] # NoTask

\* ------------------------------------------------------------ task store
\* create_task: the record cat > "$task_file" writes
NewTask(priority, deps) ==
    [status |-> STATUS_PENDING, priority |-> priority, started_at |-> Null,
     completed_at |-> Null, deps |-> deps, result |-> Null, error |-> Null]

\* get_task_status: jq -r .status, "unknown" when there is no task file
get_task_status(T, id) ==
    IF TaskExists(T, id) THEN T[id].status ELSE "unknown"

\* the jq filter of update_task_status applied to a record read at time ts
StatusFilter(rec, new_status, ts) ==
    IF new_status = STATUS_IN_PROGRESS
    THEN [rec EXCEPT !.status = new_status, !.started_at = ts]
    ELSE IF new_status \in {STATUS_COMPLETED, STATUS_FAILED, STATUS_CANCELLED}
    THEN [rec EXCEPT !.status = new_status, !.completed_at = ts]
    ELSE [rec EXCEPT !.status = new_status]

\* the jq filter ".$field = $value" of update_task_field
FieldFilter(rec, field, value) ==
    CASE field = "result"   -> [rec EXCEPT !.result = value]
      [] field = "priority" -> [rec EXCEPT !.priority = value]
      [] field = "error"    -> [rec EXCEPT !.error = value]
      [] OTHER              -> rec

\* list_tasks: the ids of the task files, all or those whose .status is the filter
list_tasks(T, status_filter) ==
    {id \in DOMAIN T : /\ T[id] # NoTask
                       /\ (status_filter = "" \/ T[id].status = status_filter)}

get_pending_tasks(T) == list_tasks(T, STATUS_PENDING)

\* check_dependencies_met with a mutated test of the dependency's status: a
\* dependency without task file ("unknown") counts as met
check_dependencies_met_unknown_ok(T, task_id) ==
    IF ~TaskExists(T, task_id) THEN FALSE
    ELSE \A dep_id \in T[task_id].deps :
            \/ dep_id = EmptyId
            \/ get_task_status(T, dep_id) \in {STATUS_COMPLETED, "unknown"}

\* check_dependencies_met with a mutated test of the dependency's status: a
\* failed dependency counts as met
check_dependencies_met_failed_ok(T, task_id) ==
    IF ~TaskExists(T, task_id) THEN FALSE
    ELSE \A dep_id \in T[task_id].deps :
            \/ dep_id = EmptyId
            \/ get_task_status(T, dep_id) \in {STATUS_COMPLETED, STATUS_FAILED}

\* check_dependencies_met: no task file -> 1; the list of dependency ids printed
\* by jq -r is empty (no ids, or only empty ids) -> 0; otherwise every non-empty
\* id must have status completed.
check_dependencies_met(T, task_id) ==
    IF ~TaskExists(T, task_id) THEN FALSE
    ELSE IF T[task_id].deps \subseteq {EmptyId} THEN TRUE
    ELSE \A dep_id \in T[task_id].deps :
            \/ dep_id = EmptyId
            \/ get_task_status(T, dep_id) = STATUS_COMPLETED

\* get_ready_tasks: the pending tasks whose check_dependencies_met succeeds
get_ready_tasks(T) ==
    {id \in get_pending_tasks(T) : check_dependencies_met(T, id)}


\* get_ready_tasks has not been called
NoAnswer == [valid |-> FALSE, ids |-> {}]

\* ------------------------------------------------- shells and subshells
\* A shell that is executing nothing
Idle == [op |-> "idle", pc |-> "idle", agent |-> "", task |-> 0, status |-> "",
         field |-> "", value |-> 0, tmp |-> NoTask, todo |-> {}, pid |-> 0,
         elapsed |-> 0, timeout |-> 0]

\* the return code before any call
NoRet == 0

\* A pid no subshell has been started under
Unborn == [pc |-> "unborn", agent |-> "", task |-> 0, code |-> 0, status |-> "",
           output |-> "", tmp |-> NoTask]

\* A subshell that has ended by itself, and one ended by a signal
Exited == [Unborn EXCEPT !.pc = "exited"]
Killed == [Unborn EXCEPT !.pc = "killed"]

\* kill -0 "$pid": the subshell has neither exited nor been killed
Alive(p) == p \in Pids /\ procs[p].pc \notin {"unborn", "exited", "killed"}

\* the function called by shell s returns rc
Return(s, op, rc) ==
    /\ sh' = [sh EXCEPT ![s] = Idle]
    /\ ret' = [ret EXCEPT ![s] = rc]

\* history of the tasks that were pending behind a dependency that is failed,
\* cancelled or has no task file
DeadDependency(T, id) ==
    /\ TaskExists(T, id)
    /\ T[id].status = STATUS_PENDING
    /\ \E d \in T[id].deps :
          get_task_status(T, d) \in {STATUS_FAILED, STATUS_CANCELLED, "unknown"}

Observe == everBlocked' = everBlocked \cup {id \in DOMAIN tasks : DeadDependency(tasks', id)}

\* update_task_status without its test of the task file: jq runs on whatever
\* the id names
BeginStatusUpdate_unchecked(s, r) ==
    /\ sh' = [sh EXCEPT ![s] = [r EXCEPT !.pc = "uts_mv",
                  !.tmp = StatusFilter(tasks[r.task], r.status, now)]]
    /\ UNCHANGED ret

\* update_task_status, first half, by shell s executing r: return 1 when there is
\* no task file, else take the timestamp and let jq write the changed record
\* to the temporary file
BeginStatusUpdate(s, r) ==
    IF TaskExists(tasks, r.task)
    THEN /\ sh' = [sh EXCEPT ![s] = [r EXCEPT !.pc = "uts_mv",
                       !.tmp = StatusFilter(tasks[r.task], r.status, now)]]
         /\ UNCHANGED ret
    ELSE Return(s, r.op, 1)

\* update_session_agent: jq .agents[agent] = {status, ...} on session.json
SessionAgent(S, agent, status) == [S EXCEPT !.agents[agent] = status]

\* ------------------------------------------------------- store operations
\* create_session: cat > session.json
create_session(s) ==
    /\ sh[s] = Idle
    /\ session' = [exists |-> TRUE, ended_at |-> Null,
                   agents |-> [a \in Agents |-> "none"]]
    /\ ret' = [ret EXCEPT ![s] = 0]
    /\ UNCHANGED <<tasks, results, pidFile, taskFile, procs, sh, now, ready>>
    /\ Observe
    /\ UNCHANGED <<queryVars, uiVars>>

\* create_task: cat > "$task_file", whatever the file held before
create_task(s, task_id, priority, dependencies) ==
    /\ sh[s] = Idle
    /\ tasks' = [tasks EXCEPT ![task_id] = NewTask(priority, dependencies)]
    /\ ret' = [ret EXCEPT ![s] = 0]
    /\ UNCHANGED <<results, session, pidFile, taskFile, procs, sh, now, ready>>
    /\ Observe
    /\ UNCHANGED <<queryVars, uiVars>>

\* update_task_status "$task_id" "$new_status": the check and the jq read
update_task_status(s, task_id, new_status) ==
    /\ sh[s] = Idle
    /\ BeginStatusUpdate(s, [Idle EXCEPT !.op = "update_task_status",
                                  !.task = task_id, !.status = new_status])
    /\ UNCHANGED <<tasks, results, session, pidFile, taskFile, procs, now, ready>>
    /\ Observe
    /\ UNCHANGED <<queryVars, uiVars>>

\* cancel_task "$task_id" = update_task_status "$task_id" cancelled
cancel_task(s, task_id) ==
    /\ sh[s] = Idle
    /\ BeginStatusUpdate(s, [Idle EXCEPT !.op = "cancel_task",
                                  !.task = task_id, !.status = STATUS_CANCELLED])
    /\ UNCHANGED <<tasks, results, session, pidFile, taskFile, procs, now, ready>>
    /\ Observe
    /\ UNCHANGED <<queryVars, uiVars>>

\* mv "$tmp" "$task_file" of update_task_status, and what the caller does next
StatusMv(s) ==
    /\ sh[s].pc = "uts_mv"
    /\ tasks' = [tasks EXCEPT ![sh[s].task] = sh[s].tmp]
    /\ CASE sh[s].op \in {"update_task_status", "cancel_task"} ->
              Return(s, sh[s].op, 0)
         [] sh[s].op \in {"cancel_all_tasks", "end_session"} ->
              /\ sh' = [sh EXCEPT ![s].pc = "cat_next", ![s].tmp = NoTask]
              /\ UNCHANGED ret
         [] sh[s].op = "spawn_agent" ->
              /\ sh' = [sh EXCEPT ![s].pc = "sa_fork", ![s].tmp = NoTask]
              /\ UNCHANGED ret
         [] sh[s].op = "kill_agent" ->
              /\ sh' = [sh EXCEPT ![s].pc = "ka_clear", ![s].tmp = NoTask]
              /\ UNCHANGED ret
    /\ UNCHANGED <<results, session, pidFile, taskFile, procs, now, ready>>
    /\ Observe
    /\ UNCHANGED <<queryVars, uiVars>>

\* update_task_field "$task_id" "$field" "$value": the check and the jq read
update_task_field(s, task_id, field, value) ==
    /\ sh[s] = Idle
    /\ IF TaskExists(tasks, task_id)
       THEN /\ sh' = [sh EXCEPT ![s] = [Idle EXCEPT !.op = "update_task_field",
                          !.pc = "utf_mv", !.task = task_id, !.field = field,
                          !.value = value,
                          !.tmp = FieldFilter(tasks[task_id], field, value)]]
            /\ UNCHANGED ret
       ELSE Return(s, "update_task_field", 1)
    /\ UNCHANGED <<tasks, results, session, pidFile, taskFile, procs, now, ready>>
    /\ Observe
    /\ UNCHANGED <<queryVars, uiVars>>

\* mv "$tmp" "$task_file" of update_task_field
FieldMv(s) ==
    /\ sh[s].pc = "utf_mv"
    /\ tasks' = [tasks EXCEPT ![sh[s].task] = sh[s].tmp]
    /\ Return(s, sh[s].op, 0)
    /\ UNCHANGED <<results, session, pidFile, taskFile, procs, now, ready>>
    /\ Observe
    /\ UNCHANGED <<queryVars, uiVars>>

\* cancel_all_tasks: the glob "$task_dir"/*.json is expanded once
cancel_all_tasks(s) ==
    /\ sh[s] = Idle
    /\ sh' = [sh EXCEPT ![s] = [Idle EXCEPT !.op = "cancel_all_tasks",
                   !.pc = "cat_next", !.todo = list_tasks(tasks, "")]]
    /\ UNCHANGED <<tasks, results, session, pidFile, taskFile, procs, ret, now, ready>>
    /\ Observe
    /\ UNCHANGED <<queryVars, uiVars>>

\* end_session: stamp ended_at when session.json exists, then cancel_all_tasks
end_session(s) ==
    /\ sh[s] = Idle
    /\ session' = IF session.exists THEN [session EXCEPT !.ended_at = now]
                  ELSE session
    /\ sh' = [sh EXCEPT ![s] = [Idle EXCEPT !.op = "end_session",
                   !.pc = "cat_next", !.todo = list_tasks(tasks, "")]]
    /\ UNCHANGED <<tasks, results, pidFile, taskFile, procs, ret, now, ready>>
    /\ Observe
    /\ UNCHANGED <<queryVars, uiVars>>

\* one iteration of the loop of cancel_all_tasks: the next file of the glob,
\* status=$(jq -r .status); the loop ends when the glob is used up
CancelAllNext(s) ==
    /\ sh[s].pc = "cat_next"
    /\ IF sh[s].todo = {}
       THEN Return(s, sh[s].op, 0)
       ELSE LET id == CHOOSE i \in sh[s].todo : \A j \in sh[s].todo : i <= j
            IN  /\ sh' = [sh EXCEPT ![s].todo = @ \ {id},
                              ![s].task = id,
                              ![s].pc = IF get_task_status(tasks, id) \in
                                           {STATUS_PENDING, STATUS_IN_PROGRESS}
                                        THEN "cat_cancel" ELSE "cat_next"]
                /\ UNCHANGED ret
    /\ UNCHANGED <<tasks, results, session, pidFile, taskFile, procs, now, ready>>
    /\ Observe
    /\ UNCHANGED <<queryVars, uiVars>>

\* cancel_task "$task_id" inside the loop of cancel_all_tasks
CancelAllCancel(s) ==
    /\ sh[s].pc = "cat_cancel"
    /\ BeginStatusUpdate(s, [sh[s] EXCEPT !.status = STATUS_CANCELLED])
    /\ UNCHANGED <<tasks, results, session, pidFile, taskFile, procs, now, ready>>
    /\ Observe
    /\ UNCHANGED <<queryVars, uiVars>>

\* ----------------------------------------------------- process supervisor
\* the pid the next background subshell gets
NextPid == CHOOSE p \in Pids : /\ procs[p].pc = "unborn"
                               /\ \A q \in Pids : procs[q].pc = "unborn" => p <= q

\* spawn_agent "$agent" "$task_id": the existence check, then the first half of
\* update_task_status "$task_id" in_progress
spawn_agent(s, agent, task_id) ==
    /\ sh[s] = Idle
    /\ \E p \in Pids : procs[p].pc = "unborn"
    /\ BeginStatusUpdate(s, [Idle EXCEPT !.op = "spawn_agent", !.agent = agent,
                                  !.task = task_id, !.status = STATUS_IN_PROGRESS])
    /\ UNCHANGED <<tasks, results, session, pidFile, taskFile, procs, now, ready>>
    /\ Observe
    /\ UNCHANGED <<queryVars, uiVars>>

\* spawn_agent after the status update: update_session_agent (which returns 1
\* without session.json, ending the function under set -e), then ( ... ) & and
\* the pid and task files of the agent
SpawnFork(s) ==
    /\ sh[s].pc = "sa_fork"
    /\ IF ~session.exists
       THEN /\ Return(s, "spawn_agent", 1)
            /\ UNCHANGED <<session, procs, pidFile, taskFile>>
       ELSE /\ session' = SessionAgent(session, sh[s].agent, "working")
            /\ procs' = [procs EXCEPT ![NextPid] =
                            [Unborn EXCEPT !.pc = "claude", !.agent = sh[s].agent,
                                           !.task = sh[s].task]]
            /\ pidFile' = [pidFile EXCEPT ![sh[s].agent] = NextPid]
            /\ taskFile' = [taskFile EXCEPT ![sh[s].agent] = sh[s].task]
            /\ Return(s, "spawn_agent", 0)
    /\ UNCHANGED <<tasks, results, now, ready>>
    /\ Observe
    /\ UNCHANGED <<queryVars, uiVars>>

\* the exit code bash gives a command whose binary is not found
CommandNotFound == 127

\* the claude command of the subshell ends with an exit code and its output
ClaudeExit(p, code) ==
    /\ procs[p].pc = "claude"
    /\ procs' = [procs EXCEPT ![p].pc = "cr_write", ![p].code = code,
                     ![p].status = IF code = 0 THEN STATUS_COMPLETED ELSE STATUS_FAILED,
                     ![p].output = CASE code = 0 -> "done"
                                     [] code = CommandNotFound -> "claude: command not found"
                                     [] OTHER -> "boom"]
    /\ UNCHANGED <<tasks, results, session, pidFile, taskFile, sh, ret, now, ready>>
    /\ Observe
    /\ UNCHANGED <<queryVars, uiVars>>

\* create_result in the subshell: cat > "$result_file"
ResultWrite(p) ==
    /\ procs[p].pc = "cr_write"
    /\ results' = [results EXCEPT ![procs[p].task] =
                      [agent |-> procs[p].agent, status |-> procs[p].status,
                       output |-> procs[p].output, completed_at |-> now]]
    /\ procs' = [procs EXCEPT ![p].pc = "utf_read"]
    /\ UNCHANGED <<tasks, session, pidFile, taskFile, sh, ret, now, ready>>
    /\ Observe
    /\ UNCHANGED <<queryVars, uiVars>>

\* create_result: update_task_field "$task_id" result, the check and the jq read;
\* without task file it returns 1 and set -e ends the subshell
ResultFieldRead(p) ==
    /\ procs[p].pc = "utf_read"
    /\ procs' = IF TaskExists(tasks, procs[p].task)
                THEN [procs EXCEPT ![p].pc = "utf_mv",
                         ![p].tmp = FieldFilter(tasks[procs[p].task], "result",
                                                procs[p].task)]
                ELSE [procs EXCEPT ![p] = Exited]
    /\ UNCHANGED <<tasks, results, session, pidFile, taskFile, sh, ret, now, ready>>
    /\ Observe
    /\ UNCHANGED <<queryVars, uiVars>>

\* create_result: mv of update_task_field
ResultFieldMv(p) ==
    /\ procs[p].pc = "utf_mv"
    /\ tasks' = [tasks EXCEPT ![procs[p].task] = procs[p].tmp]
    /\ procs' = [procs EXCEPT ![p].pc = "uts_read", ![p].tmp = NoTask]
    /\ UNCHANGED <<results, session, pidFile, taskFile, sh, ret, now, ready>>
    /\ Observe
    /\ UNCHANGED <<queryVars, uiVars>>

\* create_result: update_task_status "$task_id" "$status", the check and the jq read
ResultStatusRead(p) ==
    /\ procs[p].pc = "uts_read"
    /\ procs' = IF TaskExists(tasks, procs[p].task)
                THEN [procs EXCEPT ![p].pc = "uts_mv",
                         ![p].tmp = StatusFilter(tasks[procs[p].task],
                                                 procs[p].status, now)]
                ELSE [procs EXCEPT ![p] = Exited]
    /\ UNCHANGED <<tasks, results, session, pidFile, taskFile, sh, ret, now, ready>>
    /\ Observe
    /\ UNCHANGED <<queryVars, uiVars>>

\* create_result: mv of update_task_status
ResultStatusMv(p) ==
    /\ procs[p].pc = "uts_mv"
    /\ tasks' = [tasks EXCEPT ![procs[p].task] = procs[p].tmp]
    /\ procs' = [procs EXCEPT ![p].pc = "usa", ![p].tmp = NoTask]
    /\ UNCHANGED <<results, session, pidFile, taskFile, sh, ret, now, ready>>
    /\ Observe
    /\ UNCHANGED <<queryVars, uiVars>>

\* the subshell's update_session_agent "$agent" done|failed, and its end
SubshellEnd(p) ==
    /\ procs[p].pc = "usa"
    /\ session' = IF session.exists
                  THEN SessionAgent(session, procs[p].agent,
                          IF procs[p].code = 0 THEN "done" ELSE "failed")
                  ELSE session
    /\ procs' = [procs EXCEPT ![p] = Exited]
    /\ UNCHANGED <<tasks, results, pidFile, taskFile, sh, ret, now, ready>>
    /\ Observe
    /\ UNCHANGED <<queryVars, uiVars>>

\* history: the status the task bound to the agent has (kept by kill_agent in
\* the unused field of the shell record, as what the task "was" at the call)
BoundStatus(agent) ==
    IF taskFile[agent] # 0 THEN get_task_status(tasks, taskFile[agent]) ELSE ""

\* kill_agent "$agent": no pid file -> return 0; else kill -TERM "$pid"
kill_agent(s, agent) ==
    /\ sh[s] = Idle
    /\ IF pidFile[agent] = 0
       THEN /\ Return(s, "kill_agent", 0)
            /\ UNCHANGED procs
       ELSE /\ sh' = [sh EXCEPT ![s] = [Idle EXCEPT !.op = "kill_agent",
                          !.pc = "ka_check", !.agent = agent, !.pid = pidFile[agent],
                          !.field = BoundStatus(agent)]]
            /\ procs' = IF Alive(pidFile[agent])
                        THEN [procs EXCEPT ![pidFile[agent]].pc = "terminating",
                                           ![pidFile[agent]].tmp = NoTask]
                        ELSE procs
            /\ UNCHANGED ret
    /\ UNCHANGED <<tasks, results, session, pidFile, taskFile, now, ready>>
    /\ Observe
    /\ UNCHANGED <<queryVars, uiVars>>

\* a subshell that was sent SIGTERM dies (during the sleep 1 of kill_agent)
Terminate(p) ==
    /\ procs[p].pc = "terminating"
    /\ procs' = [procs EXCEPT ![p] = Killed]
    /\ UNCHANGED <<tasks, results, session, pidFile, taskFile, sh, ret, now, ready>>
    /\ Observe
    /\ UNCHANGED <<queryVars, uiVars>>

\* kill_agent after the sleep: kill -KILL when kill -0 still succeeds, then
\* cancel_task of the agent's task file, when there is one
KillCheck(s) ==
    /\ sh[s].pc = "ka_check"
    /\ procs' = IF Alive(sh[s].pid) THEN [procs EXCEPT ![sh[s].pid] = Killed]
                ELSE procs
    /\ IF taskFile[sh[s].agent] # 0
       THEN BeginStatusUpdate(s, [sh[s] EXCEPT !.task = taskFile[sh[s].agent],
                                               !.status = STATUS_CANCELLED])
       ELSE /\ sh' = [sh EXCEPT ![s].pc = "ka_clear"]
            /\ UNCHANGED ret
    /\ UNCHANGED <<tasks, results, session, pidFile, taskFile, now, ready>>
    /\ Observe
    /\ UNCHANGED <<queryVars, uiVars>>

\* kill_agent: _clear_agent_task, _clear_agent_pid, update_session_agent stopped
KillClear(s) ==
    /\ sh[s].pc = "ka_clear"
    /\ taskFile' = [taskFile EXCEPT ![sh[s].agent] = 0]
    /\ pidFile' = [pidFile EXCEPT ![sh[s].agent] = 0]
    /\ session' = IF session.exists
                  THEN SessionAgent(session, sh[s].agent, "stopped") ELSE session
    /\ Return(s, "kill_agent", IF session.exists THEN 0 ELSE 1)
    /\ UNCHANGED <<tasks, results, procs, now, ready>>
    /\ Observe
    /\ UNCHANGED <<queryVars, uiVars>>

\* a second passes
Tick ==
    /\ now < MaxClock
    /\ now' = now + 1
    /\ UNCHANGED <<tasks, results, session, pidFile, taskFile, procs, sh, ret, ready>>
    /\ Observe
    /\ UNCHANGED <<queryVars, uiVars>>

\* ------------------------------------------------ queries and waits
\* nothing written to stdout or to the log
\* (op: the function; agent, pid: its argument and the pid it read from the pid file)
NoOut == [op |-> "", agent |-> "", pid |-> 0, text |-> "", log |-> "", ids |-> {},
          agents |-> [a \in Agents |-> ""], session |-> NoSession]

\* kill -0 of the pid in the agent's pid file
IsRunning(agent) == pidFile[agent] # 0 /\ Alive(pidFile[agent])

\* is_agent_running without its clean-up: the pid files are left as they are
PurgeStale_keeps(agent) == pidFile

\* is_agent_running that removes the pid file whatever kill -0 says
PurgeStale_always(agent) == [pidFile EXCEPT ![agent] = 0]

\* is_agent_running, the pid files after it: a pid file whose process is gone is
\* removed (_clear_agent_pid)
PurgeStale(agent) ==
    IF pidFile[agent] # 0 /\ ~Alive(pidFile[agent])
    THEN [pidFile EXCEPT ![agent] = 0]
    ELSE pidFile

\* is_agent_running "$agent": 0 when kill -0 succeeds, else 1
is_agent_running(s, agent) ==
    /\ sh[s] = Idle
    /\ pidFile' = PurgeStale(agent)
    /\ ret' = [ret EXCEPT ![s] = IF IsRunning(agent) THEN 0 ELSE 1]
    /\ out' = [out EXCEPT ![s] = [NoOut EXCEPT !.op = "is_agent_running",
                                         !.agent = agent, !.pid = pidFile[agent]]]
    /\ UNCHANGED <<tasks, results, session, taskFile, procs, sh, now, ready>>
    /\ Observe
    /\ UNCHANGED <<outcomes, uiVars>>

\* get_agent_status that trusts the pid file without kill -0
AgentStatus_handle_only(agent) ==
    IF pidFile[agent] # 0 THEN "running"
    ELSE IF taskFile[agent] # 0 THEN get_task_status(tasks, taskFile[agent])
    ELSE "idle"

\* what get_agent_status echoes
AgentStatus(agent) ==
    IF IsRunning(agent) THEN "running"
    ELSE IF taskFile[agent] # 0 THEN get_task_status(tasks, taskFile[agent])
    ELSE "idle"

\* get_agent_status "$agent": is_agent_running, then the echo
get_agent_status(s, agent) ==
    /\ sh[s] = Idle
    /\ pidFile' = PurgeStale(agent)
    /\ ret' = [ret EXCEPT ![s] = 0]
    /\ out' = [out EXCEPT ![s] = [NoOut EXCEPT !.op = "get_agent_status",
                                         !.agent = agent, !.pid = pidFile[agent],
                                         !.text = AgentStatus(agent)]]
    /\ UNCHANGED <<tasks, results, session, taskFile, procs, sh, now, ready>>
    /\ Observe
    /\ UNCHANGED <<outcomes, uiVars>>

\* get_all_agent_status: get_agent_status for every agent of the mode
get_all_agent_status(s) ==
    /\ sh[s] = Idle
    /\ pidFile' = [a \in Agents |-> PurgeStale(a)[a]]
    /\ ret' = [ret EXCEPT ![s] = 0]
    /\ out' = [out EXCEPT ![s] = [NoOut EXCEPT !.op = "get_all_agent_status",
                                         !.agents = [a \in Agents |-> AgentStatus(a)]]]
    /\ UNCHANGED <<tasks, results, session, taskFile, procs, sh, now, ready>>
    /\ Observe
    /\ UNCHANGED <<outcomes, uiVars>>

\* list_tasks "$status_filter" called by a shell: the tasks it echoes
list_tasks_call(s, status_filter) ==
    /\ sh[s] = Idle
    /\ ret' = [ret EXCEPT ![s] = 0]
    /\ out' = [out EXCEPT ![s] = [NoOut EXCEPT !.op = "list_tasks",
                                         !.ids = list_tasks(tasks, status_filter)]]
    /\ UNCHANGED <<tasks, results, session, pidFile, taskFile, procs, sh, now, ready>>
    /\ Observe
    /\ UNCHANGED <<outcomes, uiVars>>

\* get_current_session: cat session.json, or {} when there is none
get_current_session(s) ==
    /\ sh[s] = Idle
    /\ ret' = [ret EXCEPT ![s] = 0]
    /\ out' = [out EXCEPT ![s] = [NoOut EXCEPT !.op = "get_current_session",
                                         !.session = session]]
    /\ UNCHANGED <<tasks, results, session, pidFile, taskFile, procs, sh, now, ready>>
    /\ Observe
    /\ UNCHANGED <<outcomes, uiVars>>

\* a wait or watch of shell s ends under condition cond with return code rc,
\* stdout text and log message log
Outcome(s, op, cond, rc, text, log) ==
    /\ Return(s, op, rc)
    /\ out' = [out EXCEPT ![s] = [NoOut EXCEPT !.op = op, !.text = text, !.log = log]]
    /\ outcomes' = outcomes \cup {<<op, cond, rc, text>>}

\* wait_agent "$agent" "$timeout": no pid file -> log_warn, return 1; else the loop
wait_agent(s, agent, timeout) ==
    /\ sh[s] = Idle
    /\ IF pidFile[agent] = 0
       THEN Outcome(s, "wait_agent", "not_running", 1, "", "Agent not running")
       ELSE /\ sh' = [sh EXCEPT ![s] = [Idle EXCEPT !.op = "wait_agent",
                          !.pc = "wa_loop", !.agent = agent, !.pid = pidFile[agent],
                          !.timeout = timeout]]
            /\ UNCHANGED <<ret, out, outcomes>>
    /\ UNCHANGED <<tasks, results, session, pidFile, taskFile, procs, now, ready>>
    /\ Observe
    /\ UNCHANGED uiVars

\* the while of wait_agent: kill -0 "$pid" && elapsed < timeout -> sleep 1
WaitLoop(s) ==
    /\ sh[s].pc = "wa_loop"
    /\ sh' = IF Alive(sh[s].pid) /\ sh[s].elapsed < sh[s].timeout
             THEN [sh EXCEPT ![s].elapsed = @ + 1]
             ELSE [sh EXCEPT ![s].pc = "wa_check"]
    /\ UNCHANGED <<tasks, results, session, pidFile, taskFile, procs, ret, now, ready>>
    /\ Observe
    /\ UNCHANGED <<queryVars, uiVars>>

\* wait_agent that kills the subshell it has waited for in vain
WaitCheck_kills(s) ==
    /\ sh[s].pc = "wa_check"
    /\ IF Alive(sh[s].pid)
       THEN /\ Outcome(s, "wait_agent", "timeout", 1, "", "Timeout waiting for agent")
            /\ procs' = [procs EXCEPT ![sh[s].pid] = Killed]
            /\ UNCHANGED pidFile
       ELSE /\ Outcome(s, "wait_agent", "finished", 0, "", "")
            /\ pidFile' = [pidFile EXCEPT ![sh[s].agent] = 0]
            /\ UNCHANGED procs
    /\ UNCHANGED <<tasks, results, session, taskFile, now, ready>>
    /\ Observe
    /\ UNCHANGED uiVars

\* wait_agent after the loop: still alive -> log_warn, return 1; else wait "$pid",
\* _clear_agent_pid, return 0
WaitCheck(s) ==
    /\ sh[s].pc = "wa_check"
    /\ IF Alive(sh[s].pid)
       THEN /\ Outcome(s, "wait_agent", "timeout", 1, "", "Timeout waiting for agent")
            /\ UNCHANGED pidFile
       ELSE /\ Outcome(s, "wait_agent", "finished", 0, "", "")
            /\ pidFile' = [pidFile EXCEPT ![sh[s].agent] = 0]
    /\ UNCHANGED <<tasks, results, session, taskFile, procs, now, ready>>
    /\ Observe
    /\ UNCHANGED uiVars

\* watch_task "$task_id" "$timeout": the loop starts with elapsed=0
watch_task(s, task_id, timeout) ==
    /\ sh[s] = Idle
    /\ sh' = [sh EXCEPT ![s] = [Idle EXCEPT !.op = "watch_task", !.pc = "wt_poll",
                   !.task = task_id, !.timeout = timeout]]
    /\ UNCHANGED <<tasks, results, session, pidFile, taskFile, procs, ret, now, ready>>
    /\ Observe
    /\ UNCHANGED <<queryVars, uiVars>>

\* one test of the while of watch_task: elapsed >= timeout -> echo timeout,
\* return 1; a terminal status -> echo it, return 0; else sleep
WatchPoll(s) ==
    /\ sh[s].pc = "wt_poll"
    /\ LET status == get_task_status(tasks, sh[s].task)
       IN  IF sh[s].elapsed >= sh[s].timeout
           THEN Outcome(s, "watch_task", "timeout", 1, "timeout",
                        "Timeout waiting for task")
           ELSE IF status \in {STATUS_COMPLETED, STATUS_FAILED, STATUS_CANCELLED}
           THEN Outcome(s, "watch_task", status, 0, status, "")
           ELSE /\ sh' = [sh EXCEPT ![s].elapsed = @ + 1]
                /\ UNCHANGED <<ret, out, outcomes>>
    /\ UNCHANGED <<tasks, results, session, pidFile, taskFile, procs, now, ready>>
    /\ Observe
    /\ UNCHANGED uiVars

\* ------------------------------------------------------------------------
\* The terminal UI: one runCouncil or runClaude call (a promise around a child
\* process with a timeout) under the App component.
\* ------------------------------------------------------------------------
MaxCalls == 2        \* operations the user submits in one behaviour
MaxMessages == 4     \* length of the message list

\* the default timeout of runCouncil and the timeout of runClaude, in ms
CouncilTimeout == 300000
ClaudeTimeout == 120000

\* no call in flight.  proc: the child process; timer: the setTimeout;
\* resolved: the flag of the promise body; settled: the resolve/reject calls made;
\* signals: the kill() calls made; awaited: the awaiting function has resumed
NoCouncil == [kind |-> "none", proc |-> "none", timer |-> "unset", delay |-> 0,
              resolved |-> FALSE, settled |-> <<>>, signals |-> 0, awaited |-> TRUE]

\* the App component: isProcessing, cancelledRef.current, the messages (by
\* kind), totalTokens, error, councilStage, and the number of operations submitted
NoApp == [isProcessing |-> FALSE, cancelledRef |-> FALSE, messages |-> <<>>,
          totalTokens |-> 0, error |-> FALSE, councilStage |-> "null", calls |-> 0]

\* what the close handler finds in stdout
Stdouts == {"empty", "result", "json", "garbage"}

\* the tokens of a response
ResponseTokens == 1

\* new Promise(...): spawn, the flags, setTimeout(..., timeout)
StartCall(kind) ==
    [NoCouncil EXCEPT !.kind = kind, !.proc = "running", !.timer = "armed",
                      !.delay = IF kind = "runCouncil" THEN CouncilTimeout
                                ELSE ClaudeTimeout,
                      !.awaited = FALSE]

\* the timeout callback: if (!resolved) { resolved = true; kill(); reject(...) }
OnTimeout(c) ==
    IF ~c.resolved
    THEN [c EXCEPT !.timer = "fired", !.resolved = TRUE, !.signals = @ + 1,
                   !.settled = Append(@, "reject_timeout")]
    ELSE [c EXCEPT !.timer = "fired"]

\* what the close handler settles the promise with
CloseOutcome(kind, code, stdout) ==
    IF code # 0 /\ stdout = "empty" THEN "reject_exit"
    ELSE IF kind = "runClaude" THEN "resolve"
    ELSE IF stdout \in {"result", "json"} THEN "resolve"
    ELSE "reject_parse"

\* the close handler without its test of the resolved flag
OnClose_unguarded(c, code, stdout) ==
    [c EXCEPT !.proc = "closed",
              !.timer = IF @ = "armed" THEN "cleared" ELSE @,
              !.resolved = TRUE,
              !.settled = Append(@, CloseOutcome(c.kind, code, stdout))]

\* the close handler: clearTimeout; if (resolved) return; resolved = true; settle
OnClose(c, code, stdout) ==
    IF c.resolved
    THEN [c EXCEPT !.proc = "closed",
                   !.timer = IF @ = "armed" THEN "cleared" ELSE @]
    ELSE [c EXCEPT !.proc = "closed",
                   !.timer = IF @ = "armed" THEN "cleared" ELSE @,
                   !.resolved = TRUE,
                   !.settled = Append(@, CloseOutcome(c.kind, code, stdout))]

\* the error handler without its resolved = true
OnError_keeps_flag(c) ==
    IF c.resolved
    THEN [c EXCEPT !.proc = "failed",
                   !.timer = IF @ = "armed" THEN "cleared" ELSE @]
    ELSE [c EXCEPT !.proc = "failed",
                   !.timer = IF @ = "armed" THEN "cleared" ELSE @,
                   !.settled = Append(@, "reject_start")]

\* the error handler: clearTimeout; if (resolved) return; resolved = true; reject
OnError(c) ==
    IF c.resolved
    THEN [c EXCEPT !.proc = "failed",
                   !.timer = IF @ = "armed" THEN "cleared" ELSE @]
    ELSE [c EXCEPT !.proc = "failed",
                   !.timer = IF @ = "armed" THEN "cleared" ELSE @,
                   !.resolved = TRUE,
                   !.settled = Append(@, "reject_start")]

\* executeCouncil / executeTask up to the await: cancelledRef.current = false,
\* setIsProcessing(true), setError(null), and the call
Execute(kind) ==
    /\ ~app.isProcessing
    /\ council.awaited
    /\ council.proc # "running"
    /\ app.calls < MaxCalls
    /\ app' = [app EXCEPT !.cancelledRef = FALSE, !.isProcessing = TRUE,
                          !.error = FALSE, !.calls = @ + 1,
                          !.councilStage = IF kind = "runCouncil" THEN "scout" ELSE @]
    /\ council' = StartCall(kind)
    /\ UNCHANGED <<shellVars, queryVars, rx, run>>

\* the timer of the call fires
TimeoutFires ==
    /\ council.timer = "armed"
    /\ council' = OnTimeout(council)
    /\ UNCHANGED <<shellVars, queryVars, app, rx, run>>

\* the child process closes with an exit code, having written stdout
ProcessClose(code, stdout) ==
    /\ council.proc \in {"running", "failed"}
    /\ council' = OnClose(council, code, stdout)
    /\ UNCHANGED <<shellVars, queryVars, app, rx, run>>

\* the child process could not be started: the error event
ProcessError ==
    /\ council.proc = "running"
    /\ council.signals = 0
    /\ council' = OnError(council)
    /\ UNCHANGED <<shellVars, queryVars, app, rx, run>>

\* the Escape key in useInput: when isProcessing, set cancelledRef, clear
\* isProcessing and councilStage and append the cancellation message
Escape ==
    /\ app.isProcessing
    /\ Len(app.messages) < MaxMessages
    /\ app' = [app EXCEPT !.cancelledRef = TRUE, !.isProcessing = FALSE,
                          !.councilStage = "null",
                          !.messages = Append(@, "cancelled")]
    /\ UNCHANGED <<shellVars, queryVars, council, rx, run>>

\* the await of executeCouncil / executeTask resumes with the settled promise:
\* the response message and its tokens, or setError; then setIsProcessing(false)
Resume ==
    /\ ~council.awaited
    /\ council.settled # <<>>
    /\ Len(app.messages) < MaxMessages
    /\ app' = IF council.settled[1] = "resolve"
              THEN [app EXCEPT !.messages = Append(@, "response"),
                               !.totalTokens = @ + ResponseTokens,
                               !.isProcessing = FALSE,
                               !.councilStage = IF council.kind = "runCouncil"
                                                THEN "null" ELSE @]
              ELSE [app EXCEPT !.error = TRUE, !.isProcessing = FALSE,
                               !.councilStage = IF council.kind = "runCouncil"
                                                THEN "null" ELSE @]
    /\ council' = [council EXCEPT !.awaited = TRUE]
    /\ UNCHANGED <<shellVars, queryVars, rx, run>>

\* ------------------------------------------------------------------------
\* The stdout data handler of runCouncil.  A stream is a sequence of bytes:
\* "n" the newline, "o" the text {"stage":"a","message":" (ASCII), "c" the
\* text "} (ASCII), "L" and "C" the two bytes of one UTF-8 character.
\* ------------------------------------------------------------------------
MaxStream == 5       \* bytes of a stream

Bytes == {"n", "o", "c", "L", "C"}

\* Buffer.toString() of one chunk: the pair L C is the character "e'", an L
\* without its C and a C without its L are the replacement character "?"
RECURSIVE toString(_)
toString(data) ==
    IF data = <<>> THEN <<>>
    ELSE IF Head(data) = "L" /\ Len(data) >= 2 /\ data[2] = "C"
    THEN <<"e'">> \o toString(SubSeq(data, 3, Len(data)))
    ELSE IF Head(data) \in {"L", "C"}
    THEN <<"?">> \o toString(Tail(data))
    ELSE <<Head(data)>> \o toString(Tail(data))

\* buffer.split('\n'): the pieces between the newlines, the last one included
RECURSIVE split(_)
split(str) ==
    IF \A i \in 1..Len(str) : str[i] # "n" THEN <<str>>
    ELSE LET k == CHOOSE i \in 1..Len(str) :
                      str[i] = "n" /\ \A j \in 1..(i - 1) : str[j] # "n"
         IN  <<SubSeq(str, 1, k - 1)>> \o split(SubSeq(str, k + 1, Len(str)))

\* JSON.parse(line) succeeds and the object has a stage: the opening text, any
\* characters of the message string, the closing text
ParsesAsStage(line) ==
    /\ Len(line) >= 2
    /\ line[1] = "o"
    /\ line[Len(line)] = "c"
    /\ \A i \in 2..(Len(line) - 1) : line[i] \in {"e'", "?"}

\* the for loop of the data handler: the lines handed to onStage
RECURSIVE StageUpdates(_)
StageUpdates(lines) ==
    IF lines = <<>> THEN <<>>
    ELSE IF ParsesAsStage(Head(lines))
    THEN <<Head(lines)>> \o StageUpdates(Tail(lines))
    ELSE StageUpdates(Tail(lines))

\* all but the last element: what is left of lines after lines.pop()
Front(q) == SubSeq(q, 1, Len(q) - 1)

\* no stream
NoRx == [whole |-> <<>>, chunks |-> <<>>, buffer |-> <<>>, delivered |-> <<>>]

\* the data handler on the next chunk: buffer += chunk; split; keep the last
\* piece as the buffer; onStage for every other piece that parses
OnData ==
    /\ rx.chunks # <<>>
    /\ LET lines == split(rx.buffer \o toString(Head(rx.chunks)))
       IN  rx' = [rx EXCEPT !.chunks = Tail(@),
                            !.buffer = lines[Len(lines)],
                            !.delivered = @ \o StageUpdates(Front(lines))]
    /\ UNCHANGED <<shellVars, queryVars, council, app, run>>

\* the stream cut into chunks after the positions of cuts
RECURSIVE Chunked(_, _)
Chunked(bytes, cuts) ==
    IF cuts = {} THEN <<bytes>>
    ELSE LET k == CHOOSE i \in cuts : \A j \in cuts : i <= j
         IN  <<SubSeq(bytes, 1, k)>>
             \o Chunked(SubSeq(bytes, k + 1, Len(bytes)), {c - k : c \in cuts \ {k}})

\* the streams of up to MaxStream bytes
Streams == UNION {[1..n -> Bytes] : n \in 1..MaxStream}

\* ------------------------------------------------------------------------
\* The council runs one App component starts, one after the other, each with
\* its own promise, child process and onStage callback.
\* ------------------------------------------------------------------------
RunIds == 1..MaxCalls

\* no run.  call: the promise, process and timer of runCouncil; backend: the
\* stage the backend is in; pipe: the stdout lines written and not yet read;
\* stdout, stderr: what the handlers have collected; observed: the updates
\* handed to onStage; value: what the promise was settled with
NoRun == [call |-> NoCouncil, backend |-> "start", pipe |-> <<>>, stdout |-> <<>>,
          stderr |-> "", observed |-> <<>>, value |-> "none"]

\* ------------------------------------------------------------------------
\* nothing queried, no UI call, no stream, no run
InitQuiet ==
    /\ out = [s \in Shells |-> NoOut]
    /\ outcomes = {}
    /\ council = NoCouncil
    /\ app = NoApp
    /\ rx = NoRx
    /\ run = [i \in RunIds |-> NoRun]

\* --------------------------------------------------------- specification
\* The supervisor and the background subshells of its agents.
Init ==
    /\ tasks = [id \in Ids |-> NoTask]
    /\ results = [id \in Ids |-> NoResult]
    /\ session = NoSession
    /\ pidFile = [a \in Agents |-> 0]
    /\ taskFile = [a \in Agents |-> 0]
    /\ procs = [p \in Pids |-> Unborn]
    /\ sh = [s \in Shells |-> Idle]
    /\ ret = [s \in Shells |-> NoRet]
    /\ now = 0
    /\ everBlocked = {}
    /\ ready = NoAnswer
    /\ InitQuiet

\* the agents the supervisor specification spawns and kills
SpecAgents == {"engineer"}

Next ==
    \/ ~session.exists /\ create_session("supervisor")
    \/ \E id \in Ids : \E deps \in SUBSET (Ids \ {id}) :
          ~TaskExists(tasks, id) /\ create_task("supervisor", id, 1, deps)
    \/ \E id \in Ids : cancel_task("supervisor", id)
    \/ StatusMv("supervisor")
    \/ cancel_all_tasks("supervisor")
    \/ end_session("supervisor")
    \/ CancelAllNext("supervisor")
    \/ CancelAllCancel("supervisor")
    \/ \E a \in SpecAgents, id \in Ids :
          /\ Cardinality({p \in Pids : Alive(p)}) < MaxLive
          /\ spawn_agent("supervisor", a, id)
    \/ SpawnFork("supervisor")
    \/ \E p \in Pids, code \in {0, 1} : ClaudeExit(p, code)
    \/ \E p \in Pids : ResultWrite(p)
    \/ \E p \in Pids : ResultFieldRead(p)
    \/ \E p \in Pids : ResultFieldMv(p)
    \/ \E p \in Pids : ResultStatusRead(p)
    \/ \E p \in Pids : ResultStatusMv(p)
    \/ \E p \in Pids : SubshellEnd(p)
    \/ \E a \in SpecAgents : kill_agent("supervisor", a)
    \/ \E p \in Pids : Terminate(p)
    \/ KillCheck("supervisor")
    \/ KillClear("supervisor")

Spec == Init /\ [][Next]_vars

\* ------------------------------------------------------------------------
\* The dependency resolver as a function of the store: every store of
\* MaxStoreTasks task files, each task with any status and any list of
\* dependency ids (the empty id, ids with and without task file).
StoreRecords ==
    {NoTask} \cup
    {[NewTask(1, deps) EXCEPT !.status = st] :
        st \in Statuses, deps \in SUBSET ({EmptyId} \cup StoreIds)}

InitReady ==
    /\ tasks \in [StoreIds -> StoreRecords]
    /\ results = [id \in StoreIds |-> NoResult]
    /\ session = NoSession
    /\ pidFile = [a \in Agents |-> 0]
    /\ taskFile = [a \in Agents |-> 0]
    /\ procs = [p \in Pids |-> Unborn]
    /\ sh = [s \in Shells |-> Idle]
    /\ ret = [s \in Shells |-> NoRet]
    /\ now = 0
    /\ everBlocked = {}
    /\ ready = NoAnswer
    /\ InitQuiet

\* a call of get_ready_tasks
ReadyCall ==
    /\ ~ready.valid
    /\ ready' = [valid |-> TRUE, ids |-> get_ready_tasks(tasks)]
    /\ UNCHANGED <<tasks, results, session, pidFile, taskFile, procs, sh, ret, now,
                   everBlocked>>
    /\ UNCHANGED <<queryVars, uiVars>>

NextReady == ReadyCall

SpecReady == InitReady /\ [][NextReady]_vars

\* ------------------------------------------------------------------------
\* Two shells that use the store at the same time: each calls
\* update_task_field and update_task_status on the same task files.
MaxWriterTasks == 1
WriterIds == 1..MaxWriterTasks

\* the field updates the writers make: .priority = 2, .error = 1
WriterFields == {<<"priority", 2>>, <<"error", 1>>}

InitWriters ==
    /\ tasks = [id \in WriterIds |-> NoTask]
    /\ results = [id \in WriterIds |-> NoResult]
    /\ session = NoSession
    /\ pidFile = [a \in Agents |-> 0]
    /\ taskFile = [a \in Agents |-> 0]
    /\ procs = [p \in Pids |-> Unborn]
    /\ sh = [s \in Shells |-> Idle]
    /\ ret = [s \in Shells |-> NoRet]
    /\ now = 0
    /\ everBlocked = {}
    /\ ready = NoAnswer
    /\ InitQuiet

NextWriters ==
    \/ \E s \in Shells, id \in WriterIds :
          ~TaskExists(tasks, id) /\ create_task(s, id, 1, {})
    \/ \E s \in Shells, id \in WriterIds, fv \in WriterFields :
          update_task_field(s, id, fv[1], fv[2])
    \/ \E s \in Shells : FieldMv(s)
    \/ \E s \in Shells, id \in WriterIds, st \in Statuses :
          update_task_status(s, id, st)
    \/ \E s \in Shells : StatusMv(s)
    \/ Tick

SpecWriters == InitWriters /\ [][NextWriters]_vars

\* ------------------------------------------------------------------------
\* The task store driven by one caller: create_task (ids handed out in
\* increasing order, dependencies on any other id, existing or not) and
\* update_task_status with the statuses its callers pass (create_result,
\* cancel_task, spawn_agent): in_progress, completed, failed, cancelled.
\* ------------------------------------------------------------------------
InitStore ==
    /\ tasks = [id \in StoreIds |-> NoTask]
    /\ results = [id \in StoreIds |-> NoResult]
    /\ session = NoSession
    /\ pidFile = [a \in Agents |-> 0]
    /\ taskFile = [a \in Agents |-> 0]
    /\ procs = [p \in Pids |-> Unborn]
    /\ sh = [s \in Shells |-> Idle]
    /\ ret = [s \in Shells |-> NoRet]
    /\ now = 0
    /\ everBlocked = {}
    /\ ready = NoAnswer
    /\ InitQuiet

NextStore ==
    \/ \E id \in StoreIds : \E deps \in SUBSET (StoreIds \ {id}) :
          /\ ~TaskExists(tasks, id)
          /\ \A j \in StoreIds : j < id => TaskExists(tasks, j)
          /\ create_task("supervisor", id, 1, deps)
    \/ \E id \in StoreIds, st \in Statuses \ {STATUS_PENDING} :
          update_task_status("supervisor", id, st)
    \/ StatusMv("supervisor")

SpecStore == InitStore /\ [][NextStore]_vars

\* ------------------------------------------------------------------------
\* One agent whose task is spawned, possibly again while the first subshell is
\* still running, whose claude binary may be missing, and which is killed.
\* ------------------------------------------------------------------------
MaxAgentTasks == 1   \* task ids of the agent specification
AgentIds == 1..MaxAgentTasks

NextAgent ==
    \/ ~session.exists /\ create_session("supervisor")
    \/ \E id \in AgentIds :
          ~TaskExists(tasks, id) /\ create_task("supervisor", id, 1, {})
    \/ \E a \in SpecAgents, id \in AgentIds : spawn_agent("supervisor", a, id)
    \/ StatusMv("supervisor")
    \/ SpawnFork("supervisor")
    \/ \E p \in Pids, code \in {0, 1, CommandNotFound} : ClaudeExit(p, code)
    \/ \E p \in Pids : ResultWrite(p)
    \/ \E p \in Pids : ResultFieldRead(p)
    \/ \E p \in Pids : ResultFieldMv(p)
    \/ \E p \in Pids : ResultStatusRead(p)
    \/ \E p \in Pids : ResultStatusMv(p)
    \/ \E p \in Pids : SubshellEnd(p)
    \/ \E a \in SpecAgents : kill_agent("supervisor", a)
    \/ \E p \in Pids : Terminate(p)
    \/ KillCheck("supervisor")
    \/ KillClear("supervisor")

SpecAgent == Init /\ [][NextAgent]_vars

\* ------------------------------------------------------------------------
\* One agent whose task is spawned and then waited for with wait_agent and a
\* timeout of 0..MaxTimeout seconds, while the subshell runs and ends.
\* ------------------------------------------------------------------------
MaxTimeout == 1      \* seconds of the timeout argument
MaxWaitProcs == 1    \* subshells started in the wait specifications

\* the steps of the supervisor that starts subshells, and of the subshells
SpawnSteps ==
    \/ ~session.exists /\ create_session("supervisor")
    \/ \E id \in AgentIds :
          ~TaskExists(tasks, id) /\ create_task("supervisor", id, 1, {})
    \/ \E a \in SpecAgents, id \in AgentIds :
          /\ Cardinality({p \in Pids : procs[p].pc # "unborn"}) < MaxWaitProcs
          /\ spawn_agent("supervisor", a, id)
    \/ StatusMv("supervisor")
    \/ SpawnFork("supervisor")
    \/ \E p \in Pids, code \in {0, 1} : ClaudeExit(p, code)
    \/ \E p \in Pids : ResultWrite(p)
    \/ \E p \in Pids : ResultFieldRead(p)
    \/ \E p \in Pids : ResultFieldMv(p)
    \/ \E p \in Pids : ResultStatusRead(p)
    \/ \E p \in Pids : ResultStatusMv(p)
    \/ \E p \in Pids : SubshellEnd(p)

NextWait ==
    \/ SpawnSteps
    \/ \E a \in SpecAgents, timeout \in 0..MaxTimeout : wait_agent("supervisor", a, timeout)
    \/ WaitLoop("supervisor")
    \/ WaitCheck("supervisor")

SpecWait == Init /\ [][NextWait]_vars

\* ------------------------------------------------------------------------
\* The same with watch_task next to wait_agent, and with cancel_task.
\* ------------------------------------------------------------------------
NextWatch ==
    \/ NextWait
    \/ \E id \in AgentIds : cancel_task("supervisor", id)
    \/ \E id \in AgentIds, timeout \in 0..MaxTimeout : watch_task("supervisor", id, timeout)
    \/ WatchPoll("supervisor")

SpecWatch == Init /\ [][NextWatch]_vars

\* ------------------------------------------------------------------------
\* The status queries in any state of the agent's handles: a pid file that is
\* absent or names a subshell that runs, has exited or was killed; a task file
\* that is absent or names a task with or without record.
\* ------------------------------------------------------------------------
MaxStatusTasks == 1  \* task ids that have a record in the status specification
StatusIds == 1..MaxStatusTasks

\* a subshell that is running claude
Running == [Unborn EXCEPT !.pc = "claude"]

InitStatus ==
    /\ tasks \in [Ids -> {NoTask} \cup {[NewTask(1, {}) EXCEPT !.status = st] :
                                           st \in Statuses}]
    /\ \A id \in Ids \ StatusIds : tasks[id] = NoTask
    /\ results = [id \in Ids |-> NoResult]
    /\ session \in {NoSession, [NoSession EXCEPT !.exists = TRUE]}
    /\ procs \in [Pids -> {Unborn, Running, Exited, Killed}]
    /\ pidFile \in [Agents -> {0} \cup Pids]
    /\ \A a \in Agents : /\ pidFile[a] # 0 => procs[pidFile[a]] # Unborn
                         /\ a \notin SpecAgents => pidFile[a] = 0
    /\ \A p \in Pids : (\A a \in Agents : pidFile[a] # p) => procs[p] = Unborn
    /\ taskFile \in [Agents -> {0} \cup Ids]
    /\ \A a \in Agents : a \notin SpecAgents => taskFile[a] = 0
    /\ sh = [s \in Shells |-> Idle]
    /\ ret = [s \in Shells |-> NoRet]
    /\ now = 0
    /\ everBlocked = {}
    /\ ready = NoAnswer
    /\ InitQuiet

NextStatus ==
    \/ \E a \in SpecAgents : is_agent_running("supervisor", a)
    \/ \E a \in SpecAgents : get_agent_status("supervisor", a)
    \/ get_all_agent_status("supervisor")
    \/ \E f \in {"", STATUS_PENDING, STATUS_COMPLETED} : list_tasks_call("supervisor", f)
    \/ get_current_session("supervisor")

SpecStatus == InitStatus /\ [][NextStatus]_vars

\* ------------------------------------------------------------------------
\* A runCouncil or runClaude call under the App component.
\* ------------------------------------------------------------------------
NextCouncil ==
    \/ \E kind \in {"runCouncil", "runClaude"} : Execute(kind)
    \/ TimeoutFires
    \/ \E code \in {0, 1}, stdout \in Stdouts : ProcessClose(code, stdout)
    \/ ProcessError
    \/ Escape
    \/ Resume

SpecCouncil == Init /\ [][NextCouncil]_vars

\* ------------------------------------------------------------------------
\* The data handler of runCouncil on every stream of up to MaxStream bytes,
\* cut into chunks in every way.
\* ------------------------------------------------------------------------
InitChunks ==
    /\ tasks = [id \in Ids |-> NoTask]
    /\ results = [id \in Ids |-> NoResult]
    /\ session = NoSession
    /\ pidFile = [a \in Agents |-> 0]
    /\ taskFile = [a \in Agents |-> 0]
    /\ procs = [p \in Pids |-> Unborn]
    /\ sh = [s \in Shells |-> Idle]
    /\ ret = [s \in Shells |-> NoRet]
    /\ now = 0
    /\ everBlocked = {}
    /\ ready = NoAnswer
    /\ out = [s \in Shells |-> NoOut]
    /\ outcomes = {}
    /\ council = NoCouncil
    /\ app = NoApp
    /\ run = [i \in RunIds |-> NoRun]
    /\ \E bytes \in Streams : \E cuts \in SUBSET (1..(Len(bytes) - 1)) :
          rx = [NoRx EXCEPT !.whole = bytes, !.chunks = Chunked(bytes, cuts)]

NextChunks == OnData

SpecChunks == InitChunks /\ [][NextChunks]_vars

\* ------------------------------------------------------------------------
\* Task ids made by generate_id: create_task called without an id by one
\* script, while the clock advances and the tasks change status.
\* ------------------------------------------------------------------------
\* $$ of the script (a subshell of the script has the same $$)
ScriptPid == 1

\* generate_id "$prefix": ${prefix}_$(date '+%Y%m%d_%H%M%S')_$$
generate_id(prefix, t, pid) == <<prefix, t, pid>>

generate_task_id(t, pid) == generate_id("task", t, pid)

\* get_task_file "$task_id": the file of a generated id; the files of the ids a
\* script generates are told apart by the second alone
get_task_file(task_id) == task_id[2] + 1

\* create_task with an empty first argument: task_id=$(generate_task_id)
create_task_generated(s, priority) ==
    LET task_id == generate_task_id(now, ScriptPid)
    IN  /\ get_task_file(task_id) \in Ids
        /\ create_task(s, get_task_file(task_id), priority, {})

NextIds ==
    \/ \E priority \in 1..2 : create_task_generated("supervisor", priority)
    \/ \E id \in Ids, st \in Statuses \ {STATUS_PENDING} :
          update_task_status("supervisor", id, st)
    \/ StatusMv("supervisor")
    \/ Tick

SpecIds == Init /\ [][NextIds]_vars

\* ------------------------------------------------------------------------
\* Calls that name a task id with or without a task file: read_task,
\* update_task_status, update_task_field, spawn_agent by the supervisor and
\* create_result by a second shell.  Only task 1 is ever created, and no
\* session is: spawn_agent ends at its update_session_agent.
\* ------------------------------------------------------------------------
\* read_task "$task_id": cat of the task file, or log_error and return 1
read_task(s, task_id) ==
    /\ sh[s] = Idle
    /\ ret' = [ret EXCEPT ![s] = IF TaskExists(tasks, task_id) THEN 0 ELSE 1]
    /\ out' = [out EXCEPT ![s] =
                  IF TaskExists(tasks, task_id)
                  THEN [NoOut EXCEPT !.op = "read_task", !.ids = {task_id}]
                  ELSE [NoOut EXCEPT !.op = "read_task", !.log = "Task not found"]]
    /\ UNCHANGED <<tasks, results, session, pidFile, taskFile, procs, sh, now, ready>>
    /\ Observe
    /\ UNCHANGED <<outcomes, uiVars>>

\* create_result "$task_id" "$agent" "$status" called by a shell: cat > "$result_file"
create_result(s, task_id, agent, status) ==
    /\ sh[s] = Idle
    /\ results' = [results EXCEPT ![task_id] =
                      [agent |-> agent, status |-> status, output |-> "done",
                       completed_at |-> now]]
    /\ sh' = [sh EXCEPT ![s] = [Idle EXCEPT !.op = "create_result", !.pc = "cr_field",
                                      !.agent = agent, !.task = task_id,
                                      !.status = status]]
    /\ UNCHANGED <<tasks, session, pidFile, taskFile, procs, ret, now, ready>>
    /\ Observe
    /\ UNCHANGED <<queryVars, uiVars>>

\* create_result: update_task_field "$task_id" result, the check and the jq read;
\* its return 1 ends create_result under set -e
CreateResultField(s) ==
    /\ sh[s].pc = "cr_field"
    /\ IF TaskExists(tasks, sh[s].task)
       THEN /\ sh' = [sh EXCEPT ![s].pc = "cr_field_mv",
                         ![s].tmp = FieldFilter(tasks[sh[s].task], "result", sh[s].task)]
            /\ UNCHANGED ret
       ELSE Return(s, "create_result", 1)
    /\ UNCHANGED <<tasks, results, session, pidFile, taskFile, procs, now, ready>>
    /\ Observe
    /\ UNCHANGED <<queryVars, uiVars>>

\* create_result: mv of update_task_field
CreateResultFieldMv(s) ==
    /\ sh[s].pc = "cr_field_mv"
    /\ tasks' = [tasks EXCEPT ![sh[s].task] = sh[s].tmp]
    /\ sh' = [sh EXCEPT ![s].pc = "cr_status", ![s].tmp = NoTask]
    /\ UNCHANGED <<results, session, pidFile, taskFile, procs, ret, now, ready>>
    /\ Observe
    /\ UNCHANGED <<queryVars, uiVars>>

\* create_result: update_task_status "$task_id" "$status", the check and the jq read
CreateResultStatus(s) ==
    /\ sh[s].pc = "cr_status"
    /\ IF TaskExists(tasks, sh[s].task)
       THEN /\ sh' = [sh EXCEPT ![s].pc = "cr_status_mv",
                         ![s].tmp = StatusFilter(tasks[sh[s].task], sh[s].status, now)]
            /\ UNCHANGED ret
       ELSE Return(s, "create_result", 1)
    /\ UNCHANGED <<tasks, results, session, pidFile, taskFile, procs, now, ready>>
    /\ Observe
    /\ UNCHANGED <<queryVars, uiVars>>

\* create_result: mv of update_task_status, echo "$result_file"
CreateResultStatusMv(s) ==
    /\ sh[s].pc = "cr_status_mv"
    /\ tasks' = [tasks EXCEPT ![sh[s].task] = sh[s].tmp]
    /\ Return(s, "create_result", 0)
    /\ UNCHANGED <<results, session, pidFile, taskFile, procs, now, ready>>
    /\ Observe
    /\ UNCHANGED <<queryVars, uiVars>>

NextMissing ==
    \/ ~TaskExists(tasks, 1) /\ create_task("supervisor", 1, 1, {})
    \/ \E id \in Ids : read_task("supervisor", id)
    \/ \E id \in Ids, st \in {STATUS_IN_PROGRESS, STATUS_COMPLETED} :
          update_task_status("supervisor", id, st)
    \/ \E id \in Ids : update_task_field("supervisor", id, "priority", 2)
    \/ FieldMv("supervisor")
    \/ \E id \in Ids : create_result("worker", id, "tester", STATUS_COMPLETED)
    \/ CreateResultField("worker")
    \/ CreateResultFieldMv("worker")
    \/ CreateResultStatus("worker")
    \/ CreateResultStatusMv("worker")
    \/ \E a \in SpecAgents, id \in Ids : spawn_agent("supervisor", a, id)
    \/ StatusMv("supervisor")
    \/ SpawnFork("supervisor")

SpecMissing == Init /\ [][NextMissing]_vars

\* ------------------------------------------------------------------------
\* Council runs line by line.  A stdout line of the backend is one of: "text"
\* (not JSON), "null" (the JSON value null), "json" (another JSON value with
\* neither stage nor final_response nor council), "scout", "stage1", "stage2",
\* "stage3" (a stage update with that stage), "final" (an object with
\* final_response), "wrapped" (an object with council).
\* ------------------------------------------------------------------------
MaxLines == 3        \* stdout lines of a run
MaxPipe == 2         \* lines written to the pipe and not yet read

StageLines == {"scout", "stage1", "stage2", "stage3"}
LineKinds == {"text", "null", "json", "final", "wrapped"} \cup StageLines

\* JSON.parse(line) gives an object whose .stage is truthy
HasStage(line) == line \in StageLines

\* JSON.parse(line) gives a value whose .final_response or .council is truthy
Qualifies(line) == line \in {"final", "wrapped"}

\* result.council || result
Unwrap(line) == IF line = "wrapped" THEN "council" ELSE line

\* JSON.parse(stdout) of the whole output succeeds: one JSON value, nothing else
ParsesWhole(stdout) == Len(stdout) = 1 /\ stdout[1] # "text"

\* the for loop of the data handler: the updates handed to onStage, in order
RECURSIVE Delivered(_)
Delivered(lines) ==
    IF lines = <<>> THEN <<>>
    ELSE IF HasStage(Head(lines))
    THEN <<Head(lines)>> \o Delivered(Tail(lines))
    ELSE Delivered(Tail(lines))

\* the onStage callback of executeCouncil on one update: setCouncilStage by the
\* prefix of update.stage, nothing for another stage
onStage(councilStage, update) ==
    IF update \in {"stage1", "stage2", "stage3"} THEN update ELSE councilStage

\* councilStage after the callback has seen the updates
RECURSIVE AfterUpdates(_, _)
AfterUpdates(councilStage, updates) ==
    IF updates = <<>> THEN councilStage
    ELSE AfterUpdates(onStage(councilStage, Head(updates)), Tail(updates))

\* the close handler's search with the lines in stream order: the first line
\* that qualifies
FinalLine_first(stdout) ==
    LET k == CHOOSE i \in 1..Len(stdout) :
                 Qualifies(stdout[i]) /\ \A j \in 1..(i - 1) : ~Qualifies(stdout[j])
    IN  stdout[k]

\* stdout.split('\n').filter(Boolean).reverse() and the loop: the last line
\* that qualifies
FinalLine(stdout) ==
    LET k == CHOOSE i \in 1..Len(stdout) :
                 Qualifies(stdout[i]) /\ \A j \in (i + 1)..Len(stdout) : ~Qualifies(stdout[j])
    IN  stdout[k]

\* what the close handler finds in stdout: nothing; a line that qualifies; no
\* such line but a whole that parses to a value with properties (null.council
\* throws inside the try); neither
StdoutKind(stdout) ==
    IF stdout = <<>> THEN "empty"
    ELSE IF \E i \in 1..Len(stdout) : Qualifies(stdout[i]) THEN "result"
    ELSE IF ParsesWhole(stdout) /\ stdout[1] # "null" THEN "json"
    ELSE "garbage"

\* what the close handler settles the promise with
CloseValue(code, stdout, stderr) ==
    CASE CloseOutcome("runCouncil", code, StdoutKind(stdout)) = "reject_exit" ->
            IF stderr # "" THEN stderr ELSE "Council exited with code"
      [] CloseOutcome("runCouncil", code, StdoutKind(stdout)) = "reject_parse" ->
            "Failed to parse council output"
      [] OTHER ->
            IF StdoutKind(stdout) = "result" THEN Unwrap(FinalLine(stdout))
            ELSE Unwrap(stdout[1])

\* the stage events the backend may emit next: the stages come in order
BackendRank(b) ==
    CASE b = "start" -> 0 [] b = "scout" -> 1 [] b = "stage1" -> 2
      [] b = "stage2" -> 3 [] b = "stage3" -> 4 [] OTHER -> 5

BackendNext(b) ==
    {l \in StageLines \cup {"final"} :
        /\ BackendRank(b) <= 4
        /\ BackendRank(l) >= BackendRank(b)
        /\ BackendRank(l) <= BackendRank(b) + (IF b = "start" THEN 2 ELSE 1)}

\* executeCouncil up to the await
ExecuteCouncil(i) ==
    /\ ~app.isProcessing
    /\ app.calls = i - 1
    /\ app' = [app EXCEPT !.cancelledRef = FALSE, !.isProcessing = TRUE,
                          !.error = FALSE, !.calls = @ + 1, !.councilStage = "scout"]
    /\ run' = [run EXCEPT ![i] = [NoRun EXCEPT !.call = StartCall("runCouncil")]]
    /\ UNCHANGED <<shellVars, queryVars, council, rx>>

\* the backend of run i writes a line to its stdout
BackendWrite(i, l) ==
    /\ run[i].call.proc = "running"
    /\ run[i].call.signals = 0
    /\ l \in BackendNext(run[i].backend)
    /\ Len(run[i].pipe) < MaxPipe
    /\ l = "final" \/ Len(run[i].stdout) + Len(run[i].pipe) < MaxLines
    /\ run' = [run EXCEPT ![i].pipe = Append(@, l), ![i].backend = l]
    /\ UNCHANGED <<shellVars, queryVars, council, app, rx>>

\* the data handler of run i on the first k lines of the pipe: stdout += chunk,
\* onStage for the lines with a stage
StdoutData(i, k) ==
    /\ run[i].call.proc = "running"
    /\ k \in 1..Len(run[i].pipe)
    /\ LET lines == SubSeq(run[i].pipe, 1, k)
       IN  /\ run' = [run EXCEPT ![i].pipe = SubSeq(@, k + 1, Len(@)),
                                 ![i].stdout = @ \o lines,
                                 ![i].observed = @ \o Delivered(lines)]
           /\ app' = [app EXCEPT !.councilStage = AfterUpdates(@, Delivered(lines))]
    /\ UNCHANGED <<shellVars, queryVars, council, rx>>

\* the timer of run i fires
RunTimeout(i) ==
    /\ run[i].call.timer = "armed"
    /\ run' = [run EXCEPT ![i].call = OnTimeout(@),
                          ![i].value = IF run[i].call.resolved THEN @
                                       ELSE "Council request timed out"]
    /\ UNCHANGED <<shellVars, queryVars, council, app, rx>>

\* the child process of run i closes, its stdout read to the end
RunClose(i, code) ==
    /\ run[i].call.proc = "running"
    /\ run[i].pipe = <<>>
    /\ run' = [run EXCEPT ![i].call = OnClose(@, code, StdoutKind(run[i].stdout)),
                          ![i].value = IF run[i].call.resolved THEN @
                                       ELSE CloseValue(code, run[i].stdout,
                                                       run[i].stderr)]
    /\ UNCHANGED <<shellVars, queryVars, council, app, rx>>

\* the await of run i resumes: the response and its tokens or setError, then
\* the finally block
RunResume(i) ==
    /\ ~run[i].call.awaited
    /\ run[i].call.settled # <<>>
    /\ Len(app.messages) < MaxMessages
    /\ app' = IF run[i].call.settled[1] = "resolve"
              THEN [app EXCEPT !.messages = Append(@, "response"),
                               !.totalTokens = @ + ResponseTokens,
                               !.isProcessing = FALSE, !.councilStage = "null"]
              ELSE [app EXCEPT !.error = TRUE, !.isProcessing = FALSE,
                               !.councilStage = "null"]
    /\ run' = [run EXCEPT ![i].call.awaited = TRUE]
    /\ UNCHANGED <<shellVars, queryVars, council, rx>>

NextRuns ==
    \/ \E i \in RunIds : ExecuteCouncil(i)
    \/ \E i \in RunIds, l \in LineKinds : BackendWrite(i, l)
    \/ \E i \in RunIds, k \in 1..MaxPipe : StdoutData(i, k)
    \/ \E i \in RunIds : RunTimeout(i)
    \/ \E i \in RunIds, code \in {0, 1} : RunClose(i, code)
    \/ \E i \in RunIds : RunResume(i)
    \/ Escape

SpecRuns == Init /\ [][NextRuns]_vars

\* ------------------------------------------------------------------------
\* The close handler of runCouncil on every stdout of up to MaxLines lines,
\* with and without stderr text, for the exit codes 0 and 1.
\* ------------------------------------------------------------------------
RECURSIVE Outputs(_)
Outputs(n) ==
    IF n = 0 THEN {<<>>}
    ELSE Outputs(n - 1) \cup
         {Append(o, l) : o \in {q \in Outputs(n - 1) : Len(q) = n - 1}, l \in LineKinds}

InitClose ==
    /\ tasks = [id \in Ids |-> NoTask]
    /\ results = [id \in Ids |-> NoResult]
    /\ session = NoSession
    /\ pidFile = [a \in Agents |-> 0]
    /\ taskFile = [a \in Agents |-> 0]
    /\ procs = [p \in Pids |-> Unborn]
    /\ sh = [s \in Shells |-> Idle]
    /\ ret = [s \in Shells |-> NoRet]
    /\ now = 0
    /\ everBlocked = {}
    /\ ready = NoAnswer
    /\ out = [s \in Shells |-> NoOut]
    /\ outcomes = {}
    /\ council = NoCouncil
    /\ rx = NoRx
    /\ app = [NoApp EXCEPT !.isProcessing = TRUE, !.calls = 1, !.councilStage = "scout"]
    /\ \E stdout \in Outputs(MaxLines), stderr \in {"", "Traceback"} :
          run = [i \in RunIds |->
                    IF i = 1
                    THEN [NoRun EXCEPT !.call = StartCall("runCouncil"),
                                       !.stdout = stdout, !.stderr = stderr,
                                       !.observed = Delivered(stdout)]
                    ELSE NoRun]

NextClose == \E code \in {0, 1} : RunClose(1, code)

SpecClose == InitClose /\ [][NextClose]_vars

\* ------------------------------------------------------------------------
\* Properties
\* ------------------------------------------------------------------------
\* the subshell p takes the step that leaves pc
SubshellStep(p, pc) == procs[p].pc = pc /\ procs'[p].pc # pc

\* the shell s takes the step that leaves pc
ShellStep(s, pc) == sh[s].pc = pc /\ sh'[s].pc # pc

\* C1: once a task is cancelled while its subshell is still in flight, the
\* writes of the subshell's create_result (the mv of update_task_field and the
\* mv of update_task_status) leave the task's status cancelled.
C1_LateExitKeepsCancelled ==
    [][\A p \in Pids :
          ( /\ SubshellStep(p, "utf_mv") \/ SubshellStep(p, "uts_mv")
            /\ tasks[procs[p].task].status = STATUS_CANCELLED )
          => tasks'[procs[p].task].status = STATUS_CANCELLED]_vars

\* the edges of the status state machine
LegalEdge(from, to) ==
    <<from, to>> \in {<<STATUS_PENDING, STATUS_IN_PROGRESS>>,
                      <<STATUS_IN_PROGRESS, STATUS_COMPLETED>>,
                      <<STATUS_IN_PROGRESS, STATUS_FAILED>>,
                      <<STATUS_PENDING, STATUS_CANCELLED>>,
                      <<STATUS_IN_PROGRESS, STATUS_CANCELLED>>}

\* C2: every change of a task's status is an edge of the state machine, and an
\* update_task_status whose transition is no edge returns an error and leaves
\* the task record as it was.
C2_StatusMachine ==
    [][ /\ \A id \in Ids :
              ( /\ TaskExists(tasks, id) /\ TaskExists(tasks', id)
                /\ tasks'[id].status # tasks[id].status )
              => LegalEdge(tasks[id].status, tasks'[id].status)
        /\ \A s \in Shells :
              ( /\ ShellStep(s, "uts_mv")
                /\ ~LegalEdge(tasks[sh[s].task].status, sh[s].status) )
              => /\ tasks'[sh[s].task] = tasks[sh[s].task]
                 /\ ret'[s] # 0 ]_vars

\* every dependency id of the task is the id of a completed task
DependenciesCompleted(T, id) ==
    \A d \in T[id].deps : get_task_status(T, d) = STATUS_COMPLETED

\* C3: spawn_agent moves a task to in_progress, and starts its subshell, only
\* when every dependency of the task is completed.
C3_SpawnGated ==
    [][\A s \in Shells :
          ( /\ sh[s].op = "spawn_agent"
            /\ \/ ShellStep(s, "uts_mv")
               \/ ShellStep(s, "sa_fork") /\ procs' # procs )
          => DependenciesCompleted(tasks, sh[s].task)]_vars

\* the ready set as the claim C4 states it
ReadyAsClaimed(T) ==
    {id \in DOMAIN T :
        /\ TaskExists(T, id)
        /\ T[id].status = STATUS_PENDING
        /\ \A d \in T[id].deps : TaskExists(T, d) /\ T[d].status = STATUS_COMPLETED}

\* the ready set with the empty dependency ids left out
ReadyNonEmptyIds(T) ==
    {id \in DOMAIN T :
        /\ TaskExists(T, id)
        /\ T[id].status = STATUS_PENDING
        /\ \A d \in T[id].deps \ {EmptyId} :
              TaskExists(T, d) /\ T[d].status = STATUS_COMPLETED}

\* C4 as claimed: get_ready_tasks returns exactly the pending tasks whose every
\* dependency id is the id of a completed task.
C4_ReadyExact == ready.valid => ready.ids = ReadyAsClaimed(tasks)

\* C4 amended: get_ready_tasks returns exactly the pending tasks whose every
\* non-empty dependency id is the id of a completed task (an empty id is skipped).
C4_ReadyExactNonEmptyIds == ready.valid => ready.ids = ReadyNonEmptyIds(tasks)

\* C4 witness: an answer that holds a task whose dependency list has an empty
\* id next to the id of a completed task
C4_Witness ==
    /\ ready.valid
    /\ \E id \in ready.ids :
          /\ EmptyId \in tasks[id].deps
          /\ \E d \in tasks[id].deps :
                d # EmptyId /\ get_task_status(tasks, d) = STATUS_COMPLETED

\* C5: when end_session returns, no task is pending or in_progress.
C5_NoOrphanAfterEndSession ==
    [][\A s \in Shells :
          (sh[s].op = "end_session" /\ sh'[s] = Idle)
          => list_tasks(tasks', STATUS_PENDING)
               \cup list_tasks(tasks', STATUS_IN_PROGRESS) = {}]_vars

\* C6: no write of one writer undoes the write of another: the mv of
\* update_task_field changes the one field it was called for, and the mv of
\* update_task_status changes the status and its timestamp, of the record as
\* it is at that moment.
C6_NoLostUpdate ==
    [][\A s \in Shells :
          /\ ShellStep(s, "utf_mv")
                => tasks'[sh[s].task] =
                      FieldFilter(tasks[sh[s].task], sh[s].field, sh[s].value)
          /\ ShellStep(s, "uts_mv")
                => /\ tasks'[sh[s].task].priority = tasks[sh[s].task].priority
                   /\ tasks'[sh[s].task].error = tasks[sh[s].task].error
                   /\ tasks'[sh[s].task].result = tasks[sh[s].task].result]_vars

WriteTo(id) ==
    \/ \E s \in Shells : sh[s].task = id /\ sh[s].pc \in {"uts_mv", "utf_mv"}
    \/ \E p \in Pids : procs[p].task = id /\ procs[p].pc \in {"uts_mv", "utf_mv"}

C8_CreateResultAtomic ==
    \A id \in Ids :
        /\ (results[id] # NoResult \/ tasks[id].result # Null)
              => tasks[id].status \in Terminal
        /\ tasks[id].status \in {STATUS_COMPLETED, STATUS_FAILED}
              => tasks[id].result # Null /\ results[id] # NoResult

\* C9: a result file, once written, never changes.
C9_ResultImmutable ==
    [][\A id \in Ids : results[id] # NoResult => results'[id] = results[id]]_vars

\* C10: when the subshell has finished create_result, a nonzero exit code has
\* given a failed result with the output, a failed task and a non-null error;
\* exit code zero has given a completed result and a completed task.
C10_ExitRecorded ==
    [][\A p \in Pids :
          SubshellStep(p, "uts_mv") /\ procs'[p].pc = "usa"
          => LET t == procs[p].task IN
             IF procs[p].code # 0
             THEN /\ results'[t].status = STATUS_FAILED
                  /\ results'[t].output = procs[p].output
                  /\ tasks'[t].status = STATUS_FAILED
                  /\ tasks'[t].error # Null
             ELSE /\ results'[t].status = STATUS_COMPLETED
                  /\ tasks'[t].status = STATUS_COMPLETED]_vars

\* C11: a subshell whose claude binary is missing (exit code 127 of the shell)
\* produces no result file: the write step of its create_result leaves the
\* results as they are.
C11_SpawnErrorNoResult ==
    [][\A p \in Pids :
          (SubshellStep(p, "cr_write") /\ procs[p].code = CommandNotFound)
          => results' = results]_vars

\* C12: kill_agent on an agent with a pid file sends SIGTERM first, SIGKILL
\* only to a subshell that is still alive after the grace period, and when it
\* returns the subshell is not alive, the pid file and the task file of the
\* agent are gone, and a bound task that was in_progress is cancelled.
C12_KillAgentOrderAndEffect ==
    [][\A s \in Shells :
          /\ ( /\ sh[s] = Idle /\ sh'[s].op = "kill_agent"
               /\ Alive(sh'[s].pid) )
             => procs'[sh'[s].pid].pc = "terminating"
          /\ ( /\ ShellStep(s, "ka_check") /\ procs' # procs )
             => Alive(sh[s].pid)
          /\ ( /\ sh[s].op = "kill_agent" /\ ShellStep(s, "ka_clear") )
             => /\ procs'[sh[s].pid].pc \in {"exited", "killed"}
                /\ pidFile'[sh[s].agent] = 0
                /\ taskFile'[sh[s].agent] = 0
                /\ sh[s].field = STATUS_IN_PROGRESS
                      => tasks'[taskFile[sh[s].agent]].status = STATUS_CANCELLED
      ]_vars

\* C13: no step of wait_agent sends a signal or touches the task file of the
\* agent or a task record, and the step that returns because the timeout has
\* elapsed while the subshell is alive returns 1, keeps the pid file and leaves
\* the subshell alive.
C13_WaitTimeoutKeepsAgent ==
    [][\A s \in Shells :
          (sh[s].op = "wait_agent" /\ sh'[s] # sh[s])
          => /\ procs' = procs
             /\ taskFile' = taskFile
             /\ tasks' = tasks
             /\ (sh[s].pc = "wa_check" /\ Alive(sh[s].pid))
                   => /\ pidFile' = pidFile
                      /\ ret'[s] = 1
                      /\ procs'[sh[s].pid].pc \notin {"unborn", "exited", "killed"}
      ]_vars

\* C13 witness: wait_agent has returned on timeout, and the agent's pid file
\* still names a live subshell whose task is in_progress
C13_Witness ==
    /\ sh["supervisor"] = Idle
    /\ out["supervisor"].op = "wait_agent"
    /\ out["supervisor"].log = "Timeout waiting for agent"
    /\ ret["supervisor"] = 1
    /\ \E a \in Agents :
          /\ IsRunning(a)
          /\ taskFile[a] # 0
          /\ tasks[taskFile[a]].status = STATUS_IN_PROGRESS

\* C14: the outcome (return code and stdout) a wait or watch reports on
\* timeout differs from every outcome the same operation reports otherwise.
C14_TimeoutDistinct ==
    \A a \in outcomes, b \in outcomes :
        (a[1] = b[1] /\ a[2] = "timeout" /\ b[2] # "timeout")
        => <<a[3], a[4]>> # <<b[3], b[4]>>

\* C15: get_agent_status echoes running when the pid in the agent's pid file
\* is alive; otherwise, when the agent has a task file, the stored status of
\* that task; otherwise idle.
C15_AgentStatus ==
    [][\A s \in Shells, a \in Agents :
          ( /\ out'[s].op = "get_agent_status" /\ out'[s].agent = a
            /\ <<out, pidFile>>' # <<out, pidFile>> )
          => IF pidFile[a] # 0
                /\ procs[pidFile[a]].pc \notin {"unborn", "exited", "killed"}
             THEN out'[s].text = "running"
             ELSE IF taskFile[a] # 0
             THEN tasks[taskFile[a]] # NoTask
                     => out'[s].text = tasks[taskFile[a]].status
             ELSE out'[s].text = "idle"
      ]_vars

\* C15 witness: get_agent_status has echoed the stored status of the task bound
\* to an agent whose pid file names a subshell that is gone
C15_Witness ==
    /\ out["supervisor"].op = "get_agent_status"
    /\ out["supervisor"].pid # 0
    /\ \E a \in Agents :
          /\ out["supervisor"].agent = a
          /\ taskFile[a] # 0
          /\ tasks[taskFile[a]] # NoTask
          /\ out["supervisor"].text = tasks[taskFile[a]].status

\* C16: is_agent_running on an agent whose pid file names a subshell that has
\* exited returns 1 (not running) and removes the pid file.
C16_StaleHandlePurged ==
    [][\A s \in Shells, a \in Agents :
          ( /\ out'[s].op = "is_agent_running" /\ out'[s].agent = a
            /\ <<out, ret, pidFile>>' # <<out, ret, pidFile>>
            /\ pidFile[a] # 0
            /\ procs[pidFile[a]].pc \in {"exited", "killed"} )
          => /\ ret'[s] = 1
             /\ pidFile'[a] = 0
      ]_vars

\* C16 witness: is_agent_running has read the pid of a subshell that is gone,
\* has returned 1, and the pid file is no more
C16_Witness ==
    /\ out["supervisor"].op = "is_agent_running"
    /\ out["supervisor"].pid # 0
    /\ procs[out["supervisor"].pid].pc \in {"exited", "killed"}
    /\ ret["supervisor"] = 1
    /\ pidFile[out["supervisor"].agent] = 0

\* C17: a status or listing query leaves the task store, the result store, the
\* session record and the agents' pid and task files unchanged.
C17_QueriesReadOnly ==
    [][\A s \in Shells :
          out'[s].op \in {"list_tasks", "get_agent_status", "get_all_agent_status",
                          "get_current_session"}
          => UNCHANGED <<tasks, results, session, pidFile, taskFile>>]_vars

\* C17 as the code has it: a status or listing query leaves the task store,
\* the result store, the session record and the agents' task files unchanged,
\* and changes a pid file in one way only: it removes a pid file whose
\* subshell is not alive.
C17_QueriesKeepStoresAndLiveHandles ==
    [][\A s \in Shells :
          ( /\ out'[s].op \in {"list_tasks", "get_agent_status",
                               "get_all_agent_status", "get_current_session"}
            /\ <<out, pidFile>>' # <<out, pidFile>> )
          => /\ UNCHANGED <<tasks, results, session, taskFile>>
             /\ \A a \in Agents :
                   \/ pidFile'[a] = pidFile[a]
                   \/ pidFile'[a] = 0 /\ ~Alive(pidFile[a])
      ]_vars

\* C17 witness: get_agent_status has found the pid file of a subshell that is
\* gone and has removed it, and the agent's task file is still there
C17_Witness ==
    /\ out["supervisor"].op = "get_agent_status"
    /\ out["supervisor"].pid # 0
    /\ ~Alive(out["supervisor"].pid)
    /\ pidFile[out["supervisor"].agent] = 0
    /\ taskFile[out["supervisor"].agent] # 0

\* C18: the Escape key during an operation in flight sends the child process a
\* signal, and after it the response of the cancelled operation is neither
\* appended to the messages nor added to the token total.
C18_EscapeCancels ==
    [][ /\ (app.isProcessing /\ ~app.cancelledRef /\ app'.cancelledRef)
              => council'.signals = council.signals + 1
        /\ app.cancelledRef
              => \/ app'.messages = app.messages /\ app'.totalTokens = app.totalTokens
                 \/ ~app'.cancelledRef
      ]_vars

\* C19: whatever the cut of the stream into chunks, onStage has received, when
\* the last chunk is handled, the updates it receives when the stream arrives
\* as one chunk: the newline-terminated lines that parse, once, in order.
C19_ChunkingInvariant ==
    rx.chunks = <<>>
    => rx.delivered = StageUpdates(Front(split(toString(rx.whole))))

\* C20: when the timer fires before the process has closed, the process is
\* killed and the promise rejected with the timeout error; the close event that
\* follows settles nothing; the promise is settled at most once.
C20_TimeoutSettlesOnce ==
    [][ /\ ( /\ council.timer = "armed" /\ council'.timer = "fired"
             /\ council.proc # "closed" )
           => /\ council'.signals = council.signals + 1
              /\ council'.settled = Append(council.settled, "reject_timeout")
        /\ ( /\ council.timer = "fired" /\ council.proc # "closed"
             /\ council'.proc = "closed" )
           => council'.settled = council.settled
        /\ Len(council'.settled) <= 1
      ]_vars

\* C20 witness: the timer has fired, the process was sent one signal and has
\* closed afterwards, and the promise holds the timeout rejection alone
C20_Witness ==
    /\ council.kind = "runCouncil"
    /\ council.timer = "fired"
    /\ council.proc = "closed"
    /\ council.signals = 1
    /\ council.settled = <<"reject_timeout">>

\* C22: a create_task call with a generated id (the one step that changes the
\* task store while every shell is idle before and after it) writes only a
\* task file that did not exist: it never replaces the record of a task.
C22_GeneratedIdsDistinct ==
    [][ ( /\ \A s \in Shells : sh[s] = Idle /\ sh'[s] = Idle
          /\ tasks' # tasks )
        => \A id \in Ids : tasks'[id] # tasks[id] => tasks[id] = NoTask ]_vars

\* the task store, the result store, the session, the agents' files and the
\* subshells are as before
StoreUntouched == UNCHANGED <<tasks, results, session, pidFile, taskFile, procs>>

C25_NoStuckInProgress ==
    ( /\ \A s \in Shells : sh[s] = Idle
      /\ \A p \in Pids : ~Alive(p) )
    => \A id \in Ids : tasks[id].status # STATUS_IN_PROGRESS

\* C27: every subshell spawn_agent has started and that is alive is named by
\* the pid file of some agent.
C27_LiveProcessTracked ==
    \A p \in Pids : Alive(p) => \E a \in Agents : pidFile[a] = p

\* C28: kill_agent on an agent whose subshell has exited by itself and whose
\* task is completed or failed at the call leaves the status and
\* completed_at of that task as they are.
C28_KillAfterExitKeepsTask ==
    [][\A s \in Shells :
          ( /\ sh[s].op = "kill_agent"
            /\ sh'[s] # sh[s]
            /\ sh[s].field \in {STATUS_COMPLETED, STATUS_FAILED}
            /\ procs[sh[s].pid].pc = "exited" )
          => \A id \in Ids :
                /\ tasks'[id].status = tasks[id].status
                /\ tasks'[id].completed_at = tasks[id].completed_at
      ]_vars

\* C26: the promise of a runCouncil call is settled at most once, and exactly
\* once as soon as the timer has fired, the close event or the error event has
\* been handled, in whatever order they come.
C26_SettledExactlyOnce ==
    council.kind = "runCouncil"
    => /\ Len(council.settled) <= 1
       /\ ( \/ council.timer = "fired"
            \/ council.proc \in {"closed", "failed"} )
          => Len(council.settled) = 1

\* C26 witness: the error event came first and rejected the promise, the close
\* event came after it and settled nothing
C26_Witness ==
    /\ council.kind = "runCouncil"
    /\ council.proc = "closed"
    /\ council.timer = "cleared"
    /\ council.settled = <<"reject_start">>

\* C24 as stated.  When the backend closes and the handler settles the promise:
\* if a line qualifies, non-JSON lines notwithstanding, the promise resolves
\* with the last line that qualifies, council unwrapped; a parse-error
\* rejection happens only when no line qualifies and the whole stdout does not
\* parse as JSON; a nonzero exit code with empty stdout rejects with the
\* stderr text.
C24_CloseHandlerAsStated ==
    [][\A code \in {0, 1} :
         (RunClose(1, code) /\ ~run[1].call.resolved) =>
            LET stdout == run[1].stdout
            IN  /\ (\E i \in 1..Len(stdout) : Qualifies(stdout[i])) =>
                      /\ run'[1].call.settled = <<"resolve">>
                      /\ \E k \in 1..Len(stdout) :
                            /\ Qualifies(stdout[k])
                            /\ \A j \in (k + 1)..Len(stdout) : ~Qualifies(stdout[j])
                            /\ run'[1].value = Unwrap(stdout[k])
                /\ run'[1].call.settled = <<"reject_parse">> =>
                      /\ \A i \in 1..Len(stdout) : ~Qualifies(stdout[i])
                      /\ ~ParsesWhole(stdout)
                /\ (code # 0 /\ stdout = <<>>) =>
                      /\ run'[1].call.settled = <<"reject_exit">>
                      /\ run[1].stderr # "" => run'[1].value = run[1].stderr]_vars

\* C24 amended.  As stated, except that the parse-error rejection happens only
\* when no line qualifies and the whole stdout does not parse as JSON or
\* parses to null.
C24_CloseHandler ==
    [][\A code \in {0, 1} :
         (RunClose(1, code) /\ ~run[1].call.resolved) =>
            LET stdout == run[1].stdout
            IN  /\ (\E i \in 1..Len(stdout) : Qualifies(stdout[i])) =>
                      /\ run'[1].call.settled = <<"resolve">>
                      /\ \E k \in 1..Len(stdout) :
                            /\ Qualifies(stdout[k])
                            /\ \A j \in (k + 1)..Len(stdout) : ~Qualifies(stdout[j])
                            /\ run'[1].value = Unwrap(stdout[k])
                /\ run'[1].call.settled = <<"reject_parse">> =>
                      /\ \A i \in 1..Len(stdout) : ~Qualifies(stdout[i])
                      /\ ~ParsesWhole(stdout) \/ stdout = <<"null">>
                /\ (code # 0 /\ stdout = <<>>) =>
                      /\ run'[1].call.settled = <<"reject_exit">>
                      /\ run[1].stderr # "" => run'[1].value = run[1].stderr]_vars

\* a close that resolved with the unwrapped council of the last qualifying
\* line, past a non-JSON line and an earlier qualifying line
C24_Witness ==
    /\ run[1].call.proc = "closed"
    /\ run[1].stdout = <<"final", "text", "wrapped">>
    /\ run[1].call.settled = <<"resolve">>
    /\ run[1].value = "council"

\* C30.  Whenever the close handler resolves the promise, the value is a
\* council result: the object of a line with final_response, or the council
\* of a wrapped result; never a stage update or another JSON value.
C30_ResolvesWithFinalResponse ==
    \A i \in RunIds :
        run[i].call.settled = <<"resolve">> => run[i].value \in {"final", "council"}

\* C29.  Once the promise of a run is settled, onStage is not invoked again
\* for that run.
C29_NoStageAfterSettled ==
    [][\A i \in RunIds :
          run[i].call.settled # <<>> => run'[i].observed = run[i].observed]_vars

\* the place of a council stage indicator value in scout -> stage1 -> stage2 -> stage3
StageRank(st) ==
    CASE st = "scout" -> 1 [] st = "stage1" -> 2 [] st = "stage2" -> 3
      [] st = "stage3" -> 4 [] OTHER -> 0

\* C21.  In every run the stage events handed to onStage are in stage order
\* (no stage2 event before a stage1 event of the run, no stage3 event before a
\* stage2 event), and between the start of a run and the next start, while
\* the indicator shows a stage, it only moves forward along
\* scout -> stage1 -> stage2 -> stage3.
C21_StagesInOrder ==
    /\ [](\A i \in RunIds : \A j, k \in 1..Len(run[i].observed) :
             j < k => StageRank(run[i].observed[j]) <= StageRank(run[i].observed[k]))
    /\ [][(app'.calls = app.calls /\ app.councilStage # "null"
                                   /\ app'.councilStage # "null") =>
             StageRank(app.councilStage) <= StageRank(app'.councilStage)]_vars

====
